---- MODULE Spec2Model ----
(***************************************************************************)
(* Model of solana-rpc-benchmark (src/main.rs): main parses a comma        *)
(* separated endpoint list, spawns one thread per endpoint, every thread   *)
(* runs the probe sequence against its endpoint and returns a              *)
(* BenchmarkResult, main joins the threads in spawn order and prints one   *)
(* report block per collected result.                                      *)
(*                                                                         *)
(* A Rust String is a sequence of one-character strings where the code     *)
(* looks inside it (the endpoint list), and a TLA+ string where it is only *)
(* built and compared (messages, rendered lines).  Option<T> is a sequence *)
(* of length at most one: None is <<>>, Some(v) is <<v>>.                  *)
(*                                                                         *)
(* Time is logical: the clock counts the calls of complete() made so far,  *)
(* new() reads it and complete() advances it, so the end timestamps give   *)
(* the order in which the threads finished.  Instant and SystemTime read   *)
(* the same clock.                                                         *)
(*                                                                         *)
(* Spec is the whole program on the endpoint lists of RunInputs; SpecParse *)
(* is main up to the end of the spawn loop on every string of Inputs.      *)
(***************************************************************************)
EXTENDS Integers, Sequences, FiniteSets, TLC

(* ---------------------------- bounds ----------------------------------- *)
\* longest value of --endpoints whose parsing is enumerated
MaxLen == 3
\* most endpoints of a benchmark run
MaxEndpoints == 2

\* characters of an endpoint list: two letters, a blank and the delimiter
Chars == {"a", "b", " ", ","}
\* Unicode White_Space characters among Chars
Whitespace == {" "}
\* block heights a node may answer
Heights == {100}
\* slots a node may answer
Slots == {7}
\* signatures a node may answer
Signatures == {"5sig"}
\* messages of a failed remote call (ClientError::to_string)
RpcErrors == {"timed out"}

(* --------------------------- Option<T> --------------------------------- *)
None == <<>>
Some(v) == <<v>>
IsSome(o) == Len(o) = 1
IsNone(o) == Len(o) = 0
Unwrap(o) == o[1]

(* ------------------------- endpoint parsing ---------------------------- *)
\* all strings over Chars of length at most n
RECURSIVE StringsUpTo(_)
StringsUpTo(n) ==
    IF n = 0 THEN {<<>>}
    ELSE LET shorter == StringsUpTo(n - 1)
         IN  shorter \cup {Append(s, c) : s \in {t \in shorter : Len(t) = n - 1}, c \in Chars}

NumCommas(s) == Cardinality({i \in 1..Len(s) : s[i] = ","})

\* the values of --endpoints whose parsing is enumerated
Inputs == StringsUpTo(MaxLen)

\* the value of --endpoints that names n endpoints: "a", "a,b", "a,b,a", ..
RECURSIVE EndpointsArg(_)
EndpointsArg(n) ==
    IF n = 1 THEN <<"a">>
    ELSE EndpointsArg(n - 1) \o <<",", IF n % 2 = 1 THEN "a" ELSE "b">>

\* the values of --endpoints of the benchmark runs
RunInputs == {EndpointsArg(n) : n \in 1..MaxEndpoints}

\* str::split(','): the pieces between the delimiters, empty pieces included
RECURSIVE Split(_)
Split(s) ==
    IF \A i \in 1..Len(s) : s[i] # "," THEN <<s>>
    ELSE LET p == CHOOSE i \in 1..Len(s) : s[i] = "," /\ \A j \in 1..(i - 1) : s[j] # ","
         IN  <<SubSeq(s, 1, p - 1)>> \o Split(SubSeq(s, p + 1, Len(s)))

\* str::trim(): leading and trailing whitespace removed
Trim(s) ==
    LET keep == {i \in 1..Len(s) : s[i] \notin Whitespace}
    IN  IF keep = {} THEN <<>>
        ELSE LET lo == CHOOSE i \in keep : \A j \in keep : i <= j
                 hi == CHOOSE i \in keep : \A j \in keep : j <= i
             IN  SubSeq(s, lo, hi)

\* args.endpoints.split(',').map(|s| s.trim().to_string()).collect()
ParseEndpoints(s) == [i \in 1..Len(Split(s)) |-> Trim(Split(s)[i])]

\* the String as printed
RECURSIVE Str(_)
Str(s) == IF s = <<>> THEN "" ELSE s[1] \o Str(Tail(s))

(* ------------------------- BenchmarkResult ----------------------------- *)
\* BenchmarkResult::new at clock reading t
New(endpoint, t) ==
    [endpoint |-> endpoint,
     start_time |-> t,
     start_system_time |-> t,
     end_time |-> None,
     end_system_time |-> None,
     block_height |-> None,
     error |-> None,
     transaction_signature |-> None,
     transaction_block_height |-> None]

\* complete() that stamps the monotonic end time only
complete_instant_only(r, t) == [r EXCEPT !.end_time = Some(t)]

\* BenchmarkResult::complete at clock reading t
complete(r, t) == [r EXCEPT !.end_time = Some(t), !.end_system_time = Some(t)]

\* BenchmarkResult::duration
duration(r) == IF IsSome(r.end_time) THEN Some(Unwrap(r.end_time) - r.start_time) ELSE None

\* set_error that starts from a fresh record of outcomes
set_error_resetting(r, e) ==
    [r EXCEPT !.error = Some(e), !.transaction_signature = None,
              !.transaction_block_height = None]

\* BenchmarkResult::set_error
set_error(r, e) == [r EXCEPT !.error = Some(e)]

set_block_height(r, h) == [r EXCEPT !.block_height = Some(h)]

set_transaction_signature(r, sig) == [r EXCEPT !.transaction_signature = Some(sig)]

set_transaction_block_height(r, h) == [r EXCEPT !.transaction_block_height = Some(h)]

\* BenchmarkResult::format_system_time: the timestamp as text
format_system_time(t) == "T+" \o ToString(t)

\* display() with the error tested before the block height
StatusOfErrorFirst(r) ==
    IF IsSome(r.error) THEN "Error: " \o Unwrap(r.error)
    ELSE IF IsSome(r.block_height)
    THEN "Success (Block Height: " \o ToString(Unwrap(r.block_height)) \o ")"
    ELSE "Unknown Status"

\* the status of display()
StatusOf(r) ==
    IF IsSome(r.block_height)
    THEN "Success (Block Height: " \o ToString(Unwrap(r.block_height)) \o ")"
    ELSE IF IsSome(r.error) THEN "Error: " \o Unwrap(r.error)
    ELSE "Unknown Status"

\* display() without its error_details line
ErrorDetailsOmitted(r) == <<>>

\* the error_details of display(): a line of its own when error is set
ErrorDetailsOf(r) ==
    IF IsSome(r.error) THEN <<"Error Details: " \o Unwrap(r.error)>> ELSE <<>>

\* BenchmarkResult::display: the rendered text, one element per line
display(r) ==
    LET dur == IF IsSome(duration(r)) THEN ToString(Unwrap(duration(r))) \o "s" ELSE "N/A"
        status == StatusOf(r)
        start_time == format_system_time(r.start_system_time)
        end_time == IF IsSome(r.end_system_time)
                    THEN format_system_time(Unwrap(r.end_system_time)) ELSE "N/A"
        tx_signature == IF IsSome(r.transaction_signature)
                        THEN Unwrap(r.transaction_signature) ELSE "No signature"
        tx_block_height == IF IsSome(r.transaction_block_height)
                           THEN ToString(Unwrap(r.transaction_block_height)) ELSE "N/A"
        error_details == ErrorDetailsOf(r)
    IN  <<"Endpoint: " \o Str(r.endpoint),
          "Start Time: " \o start_time,
          "End Time: " \o end_time,
          "Status: " \o status,
          "Transaction Signature: " \o tx_signature,
          "Transaction Block Height: " \o tx_block_height>>
        \o error_details
        \o <<"Duration: " \o dur>>

(* ------------------------------ state ---------------------------------- *)
VARIABLES
    input,        \* args.endpoints, the value of --endpoints
    keypairOk,    \* whether read_keypair_file(&args.keypair_path) returns Ok
    mainPc,       \* position of the main thread
    endpoints,    \* the parsed endpoint list
    workers,      \* the spawned threads, in spawn order
    handles,      \* the JoinHandles, as indices into workers
    results,      \* the BenchmarkResults collected by join
    output,       \* the report blocks printed so far
    clock         \* the logical clock: the calls of complete() so far

vars == <<input, keypairOk, mainPc, endpoints, workers, handles, results, output, clock>>

(* --------------------------- probe worker ------------------------------ *)
\* the closure passed to thread::spawn, before its first statement; log and
\* completes record the remote calls made and the calls of complete(), sealed
\* the Result and the number of remote calls as they were when complete()
\* was last called
NewWorker(endpoint) ==
    [endpoint |-> endpoint, pc |-> "spawned", result |-> None, log |-> <<>>, completes |-> 0,
     sealed |-> None]

\* one remote call with its outcome, appended to the worker's log
Called(w, call, ok, value) ==
    [w EXCEPT !.log = Append(@, [call |-> call, ok |-> ok, value |-> value])]

\* result.complete() in the closure
Complete(w, t) ==
    [w EXCEPT !.result = Some(complete(Unwrap(@), t)), !.completes = @ + 1,
              !.sealed = Some([result |-> complete(Unwrap(w.result), t),
                               calls |-> Len(w.log)])]

\* result.set_error(..) in the closure
SetError(w, e) == [w EXCEPT !.result = Some(set_error(Unwrap(@), e))]

\* let mut result = BenchmarkResult::new(endpoint.clone()); RpcClient::new(..)
Started(w, t) == [w EXCEPT !.result = Some(New(w.endpoint, t)), !.pc = "get_block_height"]

\* get_block_height() returned Ok(height)
LivenessOk(w, h) ==
    [Called(w, "get_block_height", TRUE, ToString(h))
        EXCEPT !.result = Some(set_block_height(Unwrap(@), h)),
               !.pc = "get_latest_blockhash"]

\* the Err arm of get_block_height() without its complete() and return
LivenessErrFallsThrough(w, e, t) ==
    [SetError(Called(w, "get_block_height", FALSE, e), e)
        EXCEPT !.pc = "get_latest_blockhash"]

\* get_block_height() returned Err(err)
LivenessErr(w, e, t) ==
    [Complete(SetError(Called(w, "get_block_height", FALSE, e), e), t)
        EXCEPT !.pc = "returned"]

\* get_latest_blockhash() returned Ok, the second method is tried all the same
Blockhash1OkThenSecondary(w) ==
    [Called(w, "get_latest_blockhash", TRUE, "hash")
        EXCEPT !.pc = "get_latest_blockhash_with_commitment"]

\* get_latest_blockhash() returned Ok
Blockhash1Ok(w) ==
    [Called(w, "get_latest_blockhash", TRUE, "hash")
        EXCEPT !.pc = "send_and_confirm_transaction"]

\* get_latest_blockhash() returned Err
Blockhash1Err(w, e) ==
    [Called(w, "get_latest_blockhash", FALSE, e)
        EXCEPT !.pc = "get_latest_blockhash_with_commitment"]

\* get_latest_blockhash_with_commitment() returned Ok
Blockhash2Ok(w) ==
    [Called(w, "get_latest_blockhash_with_commitment", TRUE, "hash")
        EXCEPT !.pc = "send_and_confirm_transaction"]

BlockhashFailed == "Failed to get blockhash: All available methods failed"

\* the last else arm of recent_blockhash without its return
Blockhash2ErrStillSends(w, e, t) ==
    [SetError(Called(w, "get_latest_blockhash_with_commitment", FALSE, e), BlockhashFailed)
        EXCEPT !.pc = "send_and_confirm_transaction"]

\* get_latest_blockhash_with_commitment() returned Err
Blockhash2Err(w, e, t) ==
    [Complete(SetError(Called(w, "get_latest_blockhash_with_commitment", FALSE, e),
                       BlockhashFailed), t)
        EXCEPT !.pc = "returned"]

\* the Ok arm of send_and_confirm_transaction() without set_transaction_signature
SendOkUnrecorded(w, sig) ==
    [Called(w, "send_and_confirm_transaction", TRUE, sig)
        EXCEPT !.pc = "get_slot_with_commitment"]

\* send_and_confirm_transaction() returned Ok(signature)
SendOk(w, sig) ==
    [Called(w, "send_and_confirm_transaction", TRUE, sig)
        EXCEPT !.result = Some(set_transaction_signature(Unwrap(@), sig)),
               !.pc = "get_slot_with_commitment"]

\* the Err arm of send_and_confirm_transaction() waiting on for a confirmation
\* that never comes
SendErrAwaitsConfirmation(w, e, t) ==
    [SetError(Called(w, "send_and_confirm_transaction", FALSE, e),
              "Transaction failed: " \o e)
        EXCEPT !.pc = "awaiting_confirmation"]

\* the Err arm of send_and_confirm_transaction() going on to the slot lookup
SendErrStillLooksUp(w, e, t) ==
    [SetError(Called(w, "send_and_confirm_transaction", FALSE, e),
              "Transaction failed: " \o e)
        EXCEPT !.pc = "get_slot_with_commitment"]

\* the Err arm of send_and_confirm_transaction() with complete() called
\* before the error is recorded
SendErrAfterComplete(w, e, t) ==
    [SetError(Complete(Called(w, "send_and_confirm_transaction", FALSE, e), t),
              "Transaction failed: " \o e)
        EXCEPT !.pc = "returned"]

\* send_and_confirm_transaction() returned Err(err)
SendErr(w, e, t) ==
    [Complete(SetError(Called(w, "send_and_confirm_transaction", FALSE, e),
                       "Transaction failed: " \o e), t)
        EXCEPT !.pc = "returned"]

\* get_slot_with_commitment() returned Ok(slot)
SlotOk(w, slot, t) ==
    [Complete([Called(w, "get_slot_with_commitment", TRUE, ToString(slot))
                  EXCEPT !.result = Some(set_transaction_block_height(Unwrap(@), slot))], t)
        EXCEPT !.pc = "returned"]

\* the Err arm of get_slot_with_commitment() returning the result at once
SlotErrEarlyReturn(w, e, t) ==
    [SetError(Called(w, "get_slot_with_commitment", FALSE, e),
              "Failed to get transaction block height: " \o e)
        EXCEPT !.pc = "returned"]

\* get_slot_with_commitment() returned Err(err)
SlotErr(w, e, t) ==
    [Complete(SetError(Called(w, "get_slot_with_commitment", FALSE, e),
                       "Failed to get transaction block height: " \o e), t)
        EXCEPT !.pc = "returned"]

(* ---------------------------- main thread ------------------------------ *)
\* handles kept newest first
PushHandleFront(hs, i) == <<i>> \o hs

\* handles.push(handle)
PushHandle(hs, i) == Append(hs, i)

\* a join that does not wait for the thread to return
CanJoinRunning(w) == w.pc # "spawned"

\* handle.join() returns once the thread has returned its result
CanJoin(w) == w.pc = "returned"

\* Instant::now() / SystemTime::now() in new(): the clock is logical, it counts
\* the calls of complete() so far
NowAtStart == clock

\* Instant::now() / SystemTime::now() in complete(): the next tick
NowAtComplete == clock + 1

Init ==
    /\ input \in RunInputs
    /\ keypairOk \in BOOLEAN
    /\ mainPc = "read_keypair"
    /\ endpoints = <<>>
    /\ workers = <<>>
    /\ handles = <<>>
    /\ results = <<>>
    /\ output = <<>>
    /\ clock = 0

\* a keypair that falls back to a default when the file cannot be read
KeypairOrDefault(ok) == "parse"

\* .unwrap() of the keypair read: main goes on with Ok and panics on Err
UnwrapKeypair(ok) == IF ok THEN "parse" ELSE "panicked"

\* read_keypair_file(&args.keypair_path).unwrap()
ReadKeypair ==
    /\ mainPc = "read_keypair"
    /\ mainPc' = UnwrapKeypair(keypairOk)
    /\ UNCHANGED <<input, keypairOk, endpoints, workers, handles, results, output, clock>>

\* let endpoints = args.endpoints.split(',').map(..).collect()
Parse ==
    /\ mainPc = "parse"
    /\ endpoints' = ParseEndpoints(input)
    /\ mainPc' = IF Len(endpoints') = 0 THEN "print" ELSE "spawn"
    /\ UNCHANGED <<input, keypairOk, workers, handles, results, output, clock>>

\* one iteration of  for endpoint in endpoints { thread::spawn(..); handles.push(..) }
Spawn ==
    /\ mainPc = "spawn"
    /\ LET i == Len(workers) + 1
       IN  /\ workers' = Append(workers, NewWorker(endpoints[i]))
           /\ handles' = PushHandle(handles, i)
           /\ mainPc' = IF i = Len(endpoints) THEN "join" ELSE "spawn"
    /\ UNCHANGED <<input, keypairOk, endpoints, results, output, clock>>

\* one iteration of  handles.into_iter().map(|handle| handle.join().unwrap())
Join ==
    /\ mainPc = "join"
    /\ LET k == Len(results) + 1
           w == workers[handles[k]]
       IN  /\ CanJoin(w)
           /\ results' = Append(results, Unwrap(w.result))
           /\ mainPc' = IF k = Len(handles) THEN "print" ELSE "join"
    /\ UNCHANGED <<input, keypairOk, endpoints, workers, handles, output, clock>>

\* the report header, then one iteration of  for (i, result) in results.iter().enumerate()
Report ==
    /\ mainPc = "print"
    /\ IF Len(output) < Len(results)
       THEN LET k == Len(output) + 1
            IN  /\ output' = Append(output, [number |-> k, text |-> display(results[k])])
                /\ mainPc' = IF k = Len(results) THEN "done" ELSE "print"
       ELSE /\ output' = output
            /\ mainPc' = "done"
    /\ UNCHANGED <<input, keypairOk, endpoints, workers, handles, results, clock>>

(* --------------------------- worker steps ------------------------------ *)
\* a result shared by the threads: what thread i writes shows in every
\* result that exists
UpdateSharedResult(ws, i, w) ==
    [j \in 1..Len(ws) |->
        IF j = i THEN w
        ELSE IF IsSome(ws[j].result) /\ IsSome(w.result)
             THEN [ws[j] EXCEPT !.result =
                      Some([Unwrap(w.result) EXCEPT !.endpoint = ws[j].endpoint])]
             ELSE ws[j]]

\* a step of thread i: result, rpc_client and endpoint are owned by the
\* closure (let mut result, move ||), so only thread i's state changes
UpdateWorker(ws, i, w) == [ws EXCEPT ![i] = w]

Start(i) ==
    /\ workers[i].pc = "spawned"
    /\ workers' = UpdateWorker(workers, i, Started(workers[i], NowAtStart))
    /\ UNCHANGED <<input, keypairOk, mainPc, endpoints, handles, results, output, clock>>

GetBlockHeight(i) ==
    /\ workers[i].pc = "get_block_height"
    /\ \/ \E h \in Heights :
            /\ workers' = UpdateWorker(workers, i, LivenessOk(workers[i], h))
            /\ clock' = clock
       \/ \E e \in RpcErrors :
            /\ workers' = UpdateWorker(workers, i, LivenessErr(workers[i], e, NowAtComplete))
            /\ clock' = NowAtComplete
    /\ UNCHANGED <<input, keypairOk, mainPc, endpoints, handles, results, output>>

GetLatestBlockhash(i) ==
    /\ workers[i].pc = "get_latest_blockhash"
    /\ \/ workers' = UpdateWorker(workers, i, Blockhash1Ok(workers[i]))
       \/ \E e \in RpcErrors : workers' = UpdateWorker(workers, i, Blockhash1Err(workers[i], e))
    /\ UNCHANGED <<input, keypairOk, mainPc, endpoints, handles, results, output, clock>>

GetLatestBlockhashWithCommitment(i) ==
    /\ workers[i].pc = "get_latest_blockhash_with_commitment"
    /\ \/ /\ workers' = UpdateWorker(workers, i, Blockhash2Ok(workers[i]))
          /\ clock' = clock
       \/ \E e \in RpcErrors :
            /\ workers' = UpdateWorker(workers, i, Blockhash2Err(workers[i], e, NowAtComplete))
            /\ clock' = NowAtComplete
    /\ UNCHANGED <<input, keypairOk, mainPc, endpoints, handles, results, output>>

SendAndConfirmTransaction(i) ==
    /\ workers[i].pc = "send_and_confirm_transaction"
    /\ \/ \E sig \in Signatures :
            /\ workers' = UpdateWorker(workers, i, SendOk(workers[i], sig))
            /\ clock' = clock
       \/ \E e \in RpcErrors :
            /\ workers' = UpdateWorker(workers, i, SendErr(workers[i], e, NowAtComplete))
            /\ clock' = NowAtComplete
    /\ UNCHANGED <<input, keypairOk, mainPc, endpoints, handles, results, output>>

GetSlotWithCommitment(i) ==
    /\ workers[i].pc = "get_slot_with_commitment"
    /\ \/ \E slot \in Slots :
            workers' = UpdateWorker(workers, i, SlotOk(workers[i], slot, NowAtComplete))
       \/ \E e \in RpcErrors :
            workers' = UpdateWorker(workers, i, SlotErr(workers[i], e, NowAtComplete))
    /\ clock' = NowAtComplete
    /\ UNCHANGED <<input, keypairOk, mainPc, endpoints, handles, results, output>>

Next ==
    \/ ReadKeypair
    \/ Parse
    \/ Spawn
    \/ Join
    \/ Report
    \/ \E i \in 1..Len(workers) : Start(i)
    \/ \E i \in 1..Len(workers) : GetBlockHeight(i)
    \/ \E i \in 1..Len(workers) : GetLatestBlockhash(i)
    \/ \E i \in 1..Len(workers) : GetLatestBlockhashWithCommitment(i)
    \/ \E i \in 1..Len(workers) : SendAndConfirmTransaction(i)
    \/ \E i \in 1..Len(workers) : GetSlotWithCommitment(i)

Spec == Init /\ [][Next]_vars

(* ------------------------------ scheduling ----------------------------- *)
\* some step of the main thread
MainStep ==
    \/ ReadKeypair
    \/ Parse
    \/ Spawn
    \/ Join
    \/ Report

\* some step of thread i
WorkerStep(i) ==
    /\ i <= Len(workers)
    /\ \/ Start(i)
       \/ GetBlockHeight(i)
       \/ GetLatestBlockhash(i)
       \/ GetLatestBlockhashWithCommitment(i)
       \/ SendAndConfirmTransaction(i)
       \/ GetSlotWithCommitment(i)

\* the operating system schedules every thread that can run, and every
\* remote call returns: a thread that can take a step eventually takes one
FairSpec ==
    /\ Spec
    /\ WF_vars(MainStep)
    /\ \A i \in 1..MaxEndpoints : WF_vars(WorkerStep(i))

(* -------------------- threads that terminate abnormally ---------------- *)
\* Spec takes every statement of the closure to return.  SpecPanic adds the
\* runs in which a thread panics instead (println! to a closed stdout, a
\* signing failure in Transaction::new_signed_with_payer): the stack unwinds,
\* the Result is dropped and the JoinHandle yields Err.
Panicked(w) == [w EXCEPT !.pc = "panicked", !.result = None, !.sealed = None]

\* thread i panics before it has returned
Panic(i) ==
    /\ workers[i].pc \notin {"returned", "panicked"}
    /\ workers' = UpdateWorker(workers, i, Panicked(workers[i]))
    /\ UNCHANGED <<input, keypairOk, mainPc, endpoints, handles, results, output, clock>>

\* a join that replaces the result of a panicked thread by a fresh one
RecoverJoinErr(rs, w, k) ==
    [pc |-> IF k = Len(handles) THEN "print" ELSE "join",
     results |-> Append(rs, New(w.endpoint, 0))]

\* .unwrap() of the k-th handle.join() that returned Err: main panics
UnwrapJoinErr(rs, w, k) == [pc |-> "panicked", results |-> rs]

\* handle.join().unwrap() on the handle of a panicked thread
JoinPanicked ==
    /\ mainPc = "join"
    /\ LET k == Len(results) + 1
           w == workers[handles[k]]
       IN  /\ w.pc = "panicked"
           /\ mainPc' = UnwrapJoinErr(results, w, k).pc
           /\ results' = UnwrapJoinErr(results, w, k).results
    /\ UNCHANGED <<input, keypairOk, endpoints, workers, handles, output, clock>>

NextPanic ==
    \/ Next
    \/ \E i \in 1..Len(workers) : Panic(i)
    \/ JoinPanicked

SpecPanic == Init /\ [][NextPanic]_vars

(* ----------------- the parsing of every endpoint string ---------------- *)
InitParse ==
    /\ input \in Inputs
    /\ keypairOk \in BOOLEAN
    /\ mainPc = "read_keypair"
    /\ endpoints = <<>>
    /\ workers = <<>>
    /\ handles = <<>>
    /\ results = <<>>
    /\ output = <<>>
    /\ clock = 0

\* main up to the end of the spawn loop, no thread scheduled yet
NextParse ==
    \/ ReadKeypair
    \/ Parse
    \/ Spawn

SpecParse == InitParse /\ [][NextParse]_vars

(* ------------------------ vocabulary of the claims --------------------- *)
\* the BenchmarkResult of spawned thread i, once created
ResultOf(i) == Unwrap(workers[i].result)

\* thread i has returned its result
Returned(i) == workers[i].pc = "returned"

\* thread i made remote call c and it succeeded / failed
Succeeded(i, c) == \E n \in 1..Len(workers[i].log) :
    workers[i].log[n].call = c /\ workers[i].log[n].ok
Failed(i, c) == \E n \in 1..Len(workers[i].log) :
    workers[i].log[n].call = c /\ ~workers[i].log[n].ok

\* what remote call c of thread i answered
Answer(i, c) ==
    LET n == CHOOSE n \in 1..Len(workers[i].log) : workers[i].log[n].call = c
    IN  workers[i].log[n].value

\* how often thread i made remote call c
CallCount(i, c) == Cardinality({n \in 1..Len(workers[i].log) : workers[i].log[n].call = c})

\* the Status line of a rendered block
StatusLine(text) == text[4]

(* ------------------------------- C1 ------------------------------------ *)
\* C1: the reporter emits one report block per endpoint of the parsed list;
\* the block numbered #k is the rendering of the Result returned by the thread
\* spawned for the k-th endpoint, whatever the order the threads finished in,
\* and when main is done there are exactly as many blocks as endpoints.
C1_ReportInInputOrder ==
    /\ Len(output) <= Len(endpoints)
    /\ \A k \in 1..Len(output) :
        /\ output[k].number = k
        /\ workers[k].endpoint = endpoints[k]
        /\ ResultOf(k).endpoint = endpoints[k]
        /\ output[k].text = display(ResultOf(k))
    /\ mainPc = "done" => Len(output) = Len(endpoints)

\* two endpoints, the second thread finished strictly before the first, the
\* two blocks differ, and both are printed
C1_Witness ==
    /\ mainPc = "done"
    /\ Len(output) = 2
    /\ Unwrap(ResultOf(2).end_time) < Unwrap(ResultOf(1).end_time)
    /\ output[1].text # output[2].text

(* ------------------------------- C2 ------------------------------------ *)
\* C2: a thread that has returned has called complete() exactly once, and a
\* thread that has not returned yet has not called it.
C2_CompleteExactlyOnce ==
    \A i \in 1..Len(workers) :
        workers[i].completes = IF Returned(i) THEN 1 ELSE 0

\* one thread returned after a failed slot lookup, another after full success
C2_Witness ==
    \E i, j \in 1..Len(workers) :
        /\ Returned(i) /\ Failed(i, "get_slot_with_commitment")
        /\ Returned(j) /\ Succeeded(j, "get_slot_with_commitment")

(* ------------------------------- C3 ------------------------------------ *)
\* C3: a thread whose get_block_height failed has returned a Result with the
\* error of that call, no block height, the end timestamp set by one call of
\* complete(), and get_block_height is the only remote call it ever made.
C3_LivenessFailureShortCircuits ==
    \A i \in 1..Len(workers) :
        Failed(i, "get_block_height") =>
            /\ Returned(i)
            /\ ResultOf(i).error = Some(Answer(i, "get_block_height"))
            /\ IsNone(ResultOf(i).block_height)
            /\ IsSome(ResultOf(i).end_time)
            /\ IsSome(ResultOf(i).end_system_time)
            /\ workers[i].completes = 1
            /\ Len(workers[i].log) = 1

\* a thread failed the liveness query and its block has been printed
C3_Witness ==
    \E k \in 1..Len(output) : Failed(k, "get_block_height")

(* ------------------------------- C4 ------------------------------------ *)
\* C4: a thread for which both get_latest_blockhash and
\* get_latest_blockhash_with_commitment failed has returned a finalized
\* Result carrying the descriptive error, and has never called
\* send_and_confirm_transaction.
C4_NoSubmissionWithoutBlockhash ==
    \A i \in 1..Len(workers) :
        (Failed(i, "get_latest_blockhash") /\ Failed(i, "get_latest_blockhash_with_commitment")) =>
            /\ Returned(i)
            /\ ResultOf(i).error = Some(BlockhashFailed)
            /\ IsSome(ResultOf(i).end_time)
            /\ CallCount(i, "send_and_confirm_transaction") = 0

\* both blockhash methods failed for a thread and main has collected its result
C4_Witness ==
    \E k \in 1..Len(results) :
        Failed(k, "get_latest_blockhash") /\ Failed(k, "get_latest_blockhash_with_commitment")

(* ------------------------------- C5 ------------------------------------ *)
\* C5: a thread whose submission succeeded and whose slot lookup failed has
\* returned a finalized Result with the signature of the submission, the
\* block height of the liveness query and the slot-lookup error all set.
C5_PartialSuccessKeepsSignature ==
    \A i \in 1..Len(workers) :
        (Succeeded(i, "send_and_confirm_transaction") /\ Failed(i, "get_slot_with_commitment")) =>
            /\ Returned(i)
            /\ IsSome(ResultOf(i).end_time)
            /\ ResultOf(i).transaction_signature = Some(Answer(i, "send_and_confirm_transaction"))
            /\ ResultOf(i).error = Some("Failed to get transaction block height: "
                                        \o Answer(i, "get_slot_with_commitment"))
            /\ IsSome(ResultOf(i).block_height)
            /\ ToString(Unwrap(ResultOf(i).block_height)) = Answer(i, "get_block_height")

\* a submission succeeded, its slot lookup failed, and the block is printed
C5_Witness ==
    \E k \in 1..Len(output) :
        Succeeded(k, "send_and_confirm_transaction") /\ Failed(k, "get_slot_with_commitment")

(* ------------------------------- C6 ------------------------------------ *)
\* the last remote call of thread i failed
LastCallFailed(i) == workers[i].log # <<>> /\ ~workers[i].log[Len(workers[i].log)].ok

\* C6 as claimed: every endpoint gets a printed block, and every finalized
\* Result whose error is set is rendered with the Status line
\* "Error: <message>".
C6_ErrorStatusLine ==
    /\ mainPc = "done" => Len(output) = Len(endpoints)
    /\ \A i \in 1..Len(workers) :
        (Returned(i) /\ IsSome(ResultOf(i).error)) =>
            StatusLine(display(ResultOf(i))) = "Status: Error: " \o Unwrap(ResultOf(i).error)

\* C6 as amended: every endpoint gets a printed block; a thread whose last
\* remote call failed returns a Result with error set; every finalized Result
\* whose error is set is rendered with the line "Error Details: <message>",
\* and its Status line is "Error: <message>" when block_height is unset and
\* "Success (Block Height: h)" when block_height is set.
C6_ErrorDetailsLine ==
    /\ mainPc = "done" => Len(output) = Len(endpoints)
    /\ \A i \in 1..Len(workers) :
        /\ (Returned(i) /\ LastCallFailed(i)) => IsSome(ResultOf(i).error)
        /\ (Returned(i) /\ IsSome(ResultOf(i).error)) =>
            LET r == ResultOf(i)
                text == display(r)
            IN  /\ Len(text) = 8
                /\ text[7] = "Error Details: " \o Unwrap(r.error)
                /\ IsNone(r.block_height) =>
                       StatusLine(text) = "Status: Error: " \o Unwrap(r.error)
                /\ IsSome(r.block_height) =>
                       StatusLine(text) = "Status: Success (Block Height: "
                                          \o ToString(Unwrap(r.block_height)) \o ")"
                /\ i <= Len(output) => output[i].text = text

\* printed: one block of a failed liveness query and one of a failed submission
C6_Witness ==
    /\ Len(output) = 2
    /\ \E i, j \in 1..2 :
        /\ Failed(i, "get_block_height")
        /\ Failed(j, "send_and_confirm_transaction")

(* ------------------------------- C7 ------------------------------------ *)
\* main is past the parsing of the endpoint list
Parsed == mainPc \in {"spawn", "join", "print", "done"}

\* C7: for the empty endpoint string the parsed list is empty, no thread is
\* spawned, and the report has no block.
C7_EmptyInputEmptyReport ==
    (input = <<>> /\ Parsed) =>
        /\ endpoints = <<>>
        /\ workers = <<>>
        /\ output = <<>>

(* ------------------------------- C8 ------------------------------------ *)
\* s has no whitespace at either end
Trimmed(s) == s = <<>> \/ (s[1] \notin Whitespace /\ s[Len(s)] \notin Whitespace)

\* C8: the parsed endpoint list holds the trimmed pieces of the input in input
\* order, duplicates kept, every one of them non-empty, and no thread is
\* spawned for an empty identifier.
C8_NonEmptyTrimmedEndpoints ==
    Parsed =>
        /\ Len(endpoints) = NumCommas(input) + 1
        /\ \A i \in 1..Len(endpoints) : Trimmed(endpoints[i]) /\ endpoints[i] # <<>>
        /\ \A i \in 1..Len(workers) : workers[i].endpoint # <<>>

(* ------------------------------- C9 ------------------------------------ *)
\* C9: for a thread whose get_block_height answered h, the Result renders
\* the Status line "Success (Block Height: h)" from then on, and its printed
\* block carries that line, the endpoint's name and the endpoint's position in
\* the input.
C9_SuccessStatusLine ==
    \A i \in 1..Len(workers) :
        Succeeded(i, "get_block_height") =>
            LET line == "Status: Success (Block Height: " \o Answer(i, "get_block_height") \o ")"
            IN  /\ StatusLine(display(ResultOf(i))) = line
                /\ i <= Len(output) =>
                    /\ StatusLine(output[i].text) = line
                    /\ output[i].number = i
                    /\ output[i].text[1] = "Endpoint: " \o Str(endpoints[i])

\* input "a,b", both liveness queries answered, b's thread finished first,
\* both blocks printed
C9_Witness ==
    /\ input = <<"a", ",", "b">>
    /\ mainPc = "done"
    /\ Succeeded(1, "get_block_height") /\ Succeeded(2, "get_block_height")
    /\ Unwrap(ResultOf(2).end_time) < Unwrap(ResultOf(1).end_time)
    /\ output[1].text[1] = "Endpoint: a" /\ output[2].text[1] = "Endpoint: b"

(* ------------------------------- C10 ----------------------------------- *)
\* C10: once main has reached the report, and so whenever a block has been
\* printed, a thread has been spawned for every endpoint and every thread has
\* returned; every collected and every printed Result has its end timestamp.
C10_ReportAfterAllReturned ==
    /\ (mainPc \in {"print", "done"} \/ output # <<>>) =>
        /\ Len(workers) = Len(endpoints)
        /\ Len(results) = Len(workers)
        /\ \A i \in 1..Len(workers) : Returned(i)
    /\ \A k \in 1..Len(results) :
        IsSome(results[k].end_time) /\ IsSome(results[k].end_system_time)
    /\ \A k \in 1..Len(output) : output[k].text[3] # "End Time: N/A"

\* the first of two blocks is printed, the second is not yet
C10_Witness ==
    /\ mainPc = "print"
    /\ Len(workers) = 2
    /\ Len(output) = 1

(* ------------------------------- C11 ----------------------------------- *)
\* thread i is between its spawn and its return
Running(i) == workers[i].pc # "returned"

\* C11: every step changes the state of at most one thread, the one that takes
\* it: the Result, call log and position of every other thread are left as
\* they were, whatever the outcome of the remote call.  A thread that has not
\* returned can always take its next step, whatever the other threads did,
\* every Result carries the endpoint of its own thread, and once the keypair
\* is read no remote-call failure makes the process abort.
C11_WorkersIsolated ==
    /\ [][\A i \in 1..Len(workers) :
             workers'[i] # workers[i] =>
                 \A j \in 1..Len(workers) : j # i => workers'[j] = workers[j]]_vars
    /\ [](/\ \A i \in 1..Len(workers) : Running(i) => ENABLED WorkerStep(i)
          /\ keypairOk => mainPc # "panicked"
          /\ \A i \in 1..Len(workers) :
                IsSome(workers[i].result) => ResultOf(i).endpoint = workers[i].endpoint)

\* one thread has returned after a failed remote call while its sibling, with
\* a Result of its own, is still running
C11_Witness ==
    \E i, j \in 1..Len(workers) :
        /\ i # j
        /\ Returned(i) /\ LastCallFailed(i)
        /\ Running(j) /\ Succeeded(j, "get_block_height")
        /\ IsNone(ResultOf(j).error)

(* ------------------------------- C12 ----------------------------------- *)
\* the n-th remote call of thread i
CallOf(i, n) == workers[i].log[n]

C13_SingleFallback ==
    \A i \in 1..Len(workers) :
        /\ CallCount(i, "get_latest_blockhash") <= 1
        /\ CallCount(i, "get_latest_blockhash_with_commitment") <= 1
        /\ \A n \in 1..Len(workers[i].log) :
            CallOf(i, n).call = "get_latest_blockhash_with_commitment" =>
                /\ n > 1
                /\ CallOf(i, n - 1).call = "get_latest_blockhash"
                /\ ~CallOf(i, n - 1).ok
        /\ Succeeded(i, "get_latest_blockhash") =>
               CallCount(i, "get_latest_blockhash_with_commitment") = 0
        /\ workers[i].pc = "get_latest_blockhash_with_commitment" =>
               Failed(i, "get_latest_blockhash")

\* one thread took the fallback, another got its blockhash at the first try,
\* and both went on to the submission
C13_Witness ==
    \E i, j \in 1..Len(workers) :
        /\ Failed(i, "get_latest_blockhash")
        /\ Succeeded(i, "get_latest_blockhash_with_commitment")
        /\ CallCount(i, "send_and_confirm_transaction") = 1
        /\ Succeeded(j, "get_latest_blockhash")
        /\ CallCount(j, "send_and_confirm_transaction") = 1

(* ------------------------------- C14 ----------------------------------- *)
\* C14: under fair scheduling, with every remote call returning, a run whose
\* keypair was read ends with a thread spawned for every endpoint, every
\* thread returned with a finalized Result, and the report block of every
\* endpoint printed.
C14_EveryWorkerReturnsAndIsReported ==
    keypairOk ~>
        /\ mainPc = "done"
        /\ Len(endpoints) = NumCommas(input) + 1
        /\ Len(workers) = Len(endpoints)
        /\ \A i \in 1..Len(workers) : Returned(i) /\ IsSome(ResultOf(i).end_time)
        /\ Len(output) = Len(endpoints)

\* the run of two endpoints has ended, both blocks are printed
C14_Witness ==
    /\ mainPc = "done"
    /\ Len(workers) = 2
    /\ \A i \in 1..2 : Returned(i)
    /\ Len(output) = 2

(* ------------------------------- C15 ----------------------------------- *)
\* C15: when the keypair file cannot be read or parsed, main never gets past
\* the read: the endpoint list is never parsed, no thread is spawned (hence no
\* remote call is made), no result is collected and no block is printed.
C15_NoRunWithoutKeypair ==
    ~keypairOk =>
        /\ mainPc \in {"read_keypair", "panicked"}
        /\ endpoints = <<>>
        /\ workers = <<>>
        /\ handles = <<>>
        /\ results = <<>>
        /\ output = <<>>

\* the keypair read has failed and main has panicked
C15_Witness ==
    /\ ~keypairOk
    /\ mainPc = "panicked"
    /\ workers = <<>>

(* ------------------------------- C17 ----------------------------------- *)
\* C17: a Result is as complete() left it: once a thread has called
\* complete(), its Result has the fields it had at that call and the thread
\* has made no remote call since, and no later step changes the Result or
\* the call log; the start timestamps of a Result never change once it is
\* constructed, and a collected Result is never changed.
C17_ReadOnlyOnceFinalized ==
    /\ [](\A i \in 1..Len(workers) :
            IsSome(workers[i].sealed) =>
                /\ workers[i].result = Some(Unwrap(workers[i].sealed).result)
                /\ Len(workers[i].log) = Unwrap(workers[i].sealed).calls
                /\ Returned(i))
    /\ [][\A i \in 1..Len(workers) :
            /\ IsSome(workers[i].sealed) =>
                /\ workers'[i].result = workers[i].result
                /\ workers'[i].log = workers[i].log
            /\ IsSome(workers[i].result) =>
                /\ IsSome(workers'[i].result)
                /\ Unwrap(workers'[i].result).start_time = ResultOf(i).start_time
                /\ Unwrap(workers'[i].result).start_system_time = ResultOf(i).start_system_time]_vars
    /\ [][\A k \in 1..Len(results) : results'[k] = results[k]]_vars

\* a thread returned after a failed submission, its Result has been collected
\* and printed, and its sibling finished after it
C17_Witness ==
    \E i, j \in 1..Len(output) :
        /\ Failed(i, "send_and_confirm_transaction")
        /\ Returned(i) /\ Returned(j)
        /\ Unwrap(ResultOf(i).end_time) < Unwrap(ResultOf(j).end_time)

(* ------------------------------- C18 ----------------------------------- *)
\* thread i has terminated abnormally
HasPanicked(i) == workers[i].pc = "panicked"

\* C18: when a thread has panicked, main collects no result from its handle
\* or from any later one, never reaches the report, and no block is printed
\* for any endpoint; a main that panicked after reading the keypair did so at
\* the join of a panicked thread.
C18_JoinFailureIsFatal ==
    /\ \A i \in 1..Len(workers) :
        HasPanicked(i) =>
            /\ Len(results) < i
            /\ mainPc \notin {"print", "done"}
            /\ output = <<>>
    /\ (keypairOk /\ mainPc = "panicked") =>
        /\ Len(results) < Len(handles)
        /\ HasPanicked(handles[Len(results) + 1])
        /\ output = <<>>

\* main has aborted at the join of a panicked thread while another thread had
\* returned normally: nothing is printed
C18_Witness ==
    /\ keypairOk
    /\ mainPc = "panicked"
    /\ output = <<>>
    /\ \E i, j \in 1..Len(workers) : HasPanicked(i) /\ Returned(j)

(* ------------------------------- C19 ----------------------------------- *)
\* the rendering has a determinate status, an end time and a duration
Determinate(text) ==
    /\ StatusLine(text) # "Status: Unknown Status"
    /\ text[3] # "End Time: N/A"
    /\ text[Len(text)] # "Duration: N/A"

\* C19: the Result of a thread that has returned has block_height or error
\* set and both end timestamps set; its rendering, and every printed block,
\* shows neither "Unknown Status" nor "N/A" for End Time or Duration.
C19_NoIndeterminateReport ==
    /\ \A i \in 1..Len(workers) :
        Returned(i) =>
            /\ IsSome(ResultOf(i).block_height) \/ IsSome(ResultOf(i).error)
            /\ IsSome(ResultOf(i).end_time)
            /\ IsSome(ResultOf(i).end_system_time)
            /\ IsSome(duration(ResultOf(i)))
            /\ Determinate(display(ResultOf(i)))
    /\ \A k \in 1..Len(output) : Determinate(output[k].text)

\* printed: a block with only the error set and a block with only the block
\* height set
C19_Witness ==
    /\ Len(output) = 2
    /\ \E i, j \in 1..2 :
        /\ IsNone(ResultOf(i).block_height) /\ IsSome(ResultOf(i).error)
        /\ IsSome(ResultOf(j).block_height) /\ IsNone(ResultOf(j).error)

(* ------------------------------- C20 ----------------------------------- *)
\* the position of the only call of c in the log of thread i
PositionOf(i, c) == CHOOSE n \in 1..Len(workers[i].log) : CallOf(i, n).call = c

\* C20: in every reachable state and for every thread, the submission is
\* called only after a successful liveness query and a successful blockhash
\* request, the slot lookup only after a successful submission; and in the
\* Result transaction_block_height set implies transaction_signature set,
\* transaction_signature set implies block_height set, and
\* transaction_block_height set implies error unset.
C20_StepsOrdered ==
    \A i \in 1..Len(workers) :
        /\ CallCount(i, "send_and_confirm_transaction") > 0 =>
            /\ Succeeded(i, "get_block_height")
            /\ Succeeded(i, "get_latest_blockhash")
                  \/ Succeeded(i, "get_latest_blockhash_with_commitment")
            /\ CallOf(i, PositionOf(i, "send_and_confirm_transaction") - 1).ok
            /\ CallOf(i, PositionOf(i, "send_and_confirm_transaction") - 1).call
                  \in {"get_latest_blockhash", "get_latest_blockhash_with_commitment"}
            /\ CallOf(i, 1).call = "get_block_height"
        /\ CallCount(i, "get_slot_with_commitment") > 0 =>
            /\ Succeeded(i, "send_and_confirm_transaction")
            /\ PositionOf(i, "get_slot_with_commitment")
                  = PositionOf(i, "send_and_confirm_transaction") + 1
        /\ IsSome(workers[i].result) =>
            LET r == ResultOf(i)
            IN  /\ IsSome(r.transaction_block_height) => IsSome(r.transaction_signature)
                /\ IsSome(r.transaction_signature) => IsSome(r.block_height)
                /\ IsSome(r.transaction_block_height) => IsNone(r.error)
                /\ IsSome(r.transaction_signature) <=> Succeeded(i, "send_and_confirm_transaction")
                /\ IsSome(r.transaction_block_height) <=> Succeeded(i, "get_slot_with_commitment")

\* a thread went through all four steps and its block, with the transaction
\* block height, is printed
C20_Witness ==
    \E k \in 1..Len(output) :
        /\ IsSome(ResultOf(k).transaction_block_height)
        /\ output[k].text[6] = "Transaction Block Height: 7"

====
